---- MODULE Spec2Model ----
(***************************************************************************)
(* check-secrets (main.go): a single-pass scan that lists the namespaces,  *)
(* lists the Istio gateways of every namespace, fetches the TLS secrets    *)
(* the gateways' servers name and prints each certificate's expiration.    *)
(*                                                                         *)
(* The cluster (namespaces, gateways, secrets) and the openssl binary are  *)
(* the environment: every answer they give is drawn from a bounded set at  *)
(* the step where the program asks for it.                                 *)
(***************************************************************************)
EXTENDS Integers, Sequences, FiniteSets, TLC

\* ------------------------------------------------------------------ bounds
\* namespaces in the answer of list-namespaces
MaxNs == 3
\* gateways listed during one scan, all namespaces together
MaxGw == 3
\* server entries read during one scan, all gateways together
MaxServers == 3
\* tokens of a tls.crt blob (certificate pipeline)
MaxCrtLen == 3

\* ------------------------------------------------------------- small helpers
SeqsUpTo(S, n) == UNION {[1..k -> S] : k \in 0..n}

\* ------------------------------------------------------------------- errors
\* A Go error value: its message and the identifiers formatted into it.
NoErr == [msg |-> "", name |-> "", namespace |-> ""]

Errorf(msg, name, namespace) == [msg |-> msg, name |-> name, namespace |-> namespace]

\* ------------------------------------------------- the unstructured gateway
\* A JSON field read with unstructured.NestedString: absent, a string, or a
\* value of another type.
FAbsent == [k |-> "absent", s |-> ""]
FOther == [k |-> "other", s |-> ""]
FStr(x) == [k |-> "string", s |-> x]

\* The "tls" field of a server: absent, a map, or a value of another type.
TlsAbsent == [k |-> "absent", mode |-> FAbsent, credentialName |-> FAbsent]
TlsOther == [k |-> "other", mode |-> FAbsent, credentialName |-> FAbsent]
TlsMap(mode, cred) == [k |-> "map", mode |-> mode, credentialName |-> cred]

\* One element of spec.servers: a map (with its tls field) or anything else.
NotAMap == [isMap |-> FALSE, tls |-> TlsAbsent]
ServerMap(tls) == [isMap |-> TRUE, tls |-> tls]

CredNames == {"shop-cert", "pay-cert"}

\* Every shape of server the extractor tells apart.
ServerEntries ==
    { NotAMap, ServerMap(TlsAbsent), ServerMap(TlsOther),
      ServerMap(TlsMap(FAbsent, FStr("shop-cert"))),
      ServerMap(TlsMap(FOther, FStr("shop-cert"))),
      ServerMap(TlsMap(FStr("PASSTHROUGH"), FStr("shop-cert"))),
      ServerMap(TlsMap(FStr("SIMPLE"), FAbsent)),
      ServerMap(TlsMap(FStr("SIMPLE"), FOther)) }
    \cup { ServerMap(TlsMap(FStr("SIMPLE"), FStr(c))) : c \in CredNames }

\* The shapes that matter to the walk: one that fails the extraction, one
\* that is skipped, one whose secret is fetched.
WalkEntries ==
    { NotAMap, ServerMap(TlsAbsent), ServerMap(TlsMap(FStr("SIMPLE"), FStr("shop-cert"))) }

\* The spec.servers field of a gateway object: absent, a list, or another type.
ServersAbsent == [k |-> "absent", items |-> <<>>]
ServersOther == [k |-> "other", items |-> <<>>]
ServersList(items) == [k |-> "list", items |-> items]

ServersFields(entries, n) ==
    {ServersAbsent, ServersOther}
    \cup { ServersList(items) : items \in SeqsUpTo(entries, n) }

\* unstructured.NestedSlice(gw.Object, "spec", "servers")
NestedSlice(sf) ==
    [val |-> IF sf.k = "list" THEN sf.items ELSE <<>>,
     found |-> sf.k = "list",
     err |-> IF sf.k = "other" THEN Errorf("accessor error", "", "") ELSE NoErr]

\* unstructured.NestedMap(server, "tls")
NestedMap(tls) ==
    [val |-> tls,
     found |-> tls.k = "map",
     err |-> IF tls.k = "other" THEN Errorf("accessor error", "", "") ELSE NoErr]

\* unstructured.NestedString(tls, field)
NestedString(f) ==
    [val |-> IF f.k = "string" THEN f.s ELSE "",
     found |-> f.k = "string",
     err |-> IF f.k = "other" THEN Errorf("accessor error", "", "") ELSE NoErr]

\* ------------------------------------------------------------------ secrets
\* secret.Data: whether the key tls.crt is there, and its bytes as tokens:
\*   "H"  the literal "-----BEGIN CERTIFICATE-----\n"
\*   "F"  the literal "\n-----END CERTIFICATE-----"
\*   "q"  base64 characters that decode to a certificate
\*   "g"  base64 characters that decode to bytes that are no certificate
\*   "\n" a line break
\*   "!"  a character outside the base64 alphabet
NoCrt == [hasCrt |-> FALSE, crt |-> <<>>]
Crt(tokens) == [hasCrt |-> TRUE, crt |-> tokens]

\* The answers of get-secret: an error, or the secret's data.
NotFound == [ok |-> FALSE, data |-> NoCrt]
Found(data) == [ok |-> TRUE, data |-> data]

GetResults ==
    { NotFound, Found(NoCrt), Found(Crt(<<"H", "g", "F">>)),
      Found(Crt(<<"H", "q", "F", "\n">>)) }

\* The names a gateway's servers mention, whatever their mode.
Mentioned(sf) ==
    { sf.items[i].tls.credentialName.s : i \in
        { j \in 1..Len(sf.items) : sf.items[j].tls.credentialName.k = "string" } }

\* The secrets of the gateway's namespace: one answer per name.
Stores(sf) ==
    { [n \in CredNames \cup {""} |-> IF n \in Mentioned(sf) THEN f[n] ELSE NotFound] :
        f \in [Mentioned(sf) -> GetResults] }

\* -------------------------------------------------------------- openssl
\* What exec.Cmd.CombinedOutput returns: the exit status and the output, as
\* tokens: "notAfter=", " " and "\n" (white space), "d" (date characters),
\* "w" (any other text).
OpensslPrefix == "notAfter="

RunOk(output) == [ok |-> TRUE, output |-> output]
RunFailed(output) == [ok |-> FALSE, output |-> output]

\* openssl x509 -noout -enddate on the decoded bytes.
Openssl(der) ==
    IF der # <<>> /\ \A i \in 1..Len(der) : der[i] = "C"
    THEN RunOk(<<OpensslPrefix, "d", " ", "d", "\n">>)
    ELSE RunFailed(<<"w", "\n">>)

\* ------------------------------------------------------- analyzeCertificate
\* bytes.ReplaceAll(certData, marker, nil)
ReplaceAll(s, marker) == SelectSeq(s, LAMBDA t : t # marker)

\* base64.StdEncoding.DecodeString: line breaks are skipped, any other
\* character outside the alphabet is an error.
DecodeString(s) ==
    LET chars == SelectSeq(s, LAMBDA t : t # "\n")
    IN  IF \E i \in 1..Len(chars) : chars[i] \notin {"q", "g"}
        THEN [bytes |-> <<>>, ok |-> FALSE]
        ELSE [bytes |-> [i \in 1..Len(chars) |-> IF chars[i] = "q" THEN "C" ELSE "G"],
              ok |-> TRUE]

IsSpace(t) == t \in {" ", "\n"}

RECURSIVE TrimLeft(_)
TrimLeft(s) == IF s # <<>> /\ IsSpace(Head(s)) THEN TrimLeft(Tail(s)) ELSE s

RECURSIVE TrimRight(_)
TrimRight(s) ==
    IF s # <<>> /\ IsSpace(s[Len(s)]) THEN TrimRight(SubSeq(s, 1, Len(s) - 1)) ELSE s

\* strings.TrimSpace
TrimSpace(s) == TrimRight(TrimLeft(s))

\* strings.TrimPrefix(s, "notAfter=")
TrimPrefix(s) == IF s # <<>> /\ Head(s) = OpensslPrefix THEN Tail(s) ELSE s

\* The bytes handed to openssl, when the secret gets that far.
certBytes(data) ==
    DecodeString(ReplaceAll(ReplaceAll(data.crt, "H"), "F"))

\* analyzeCertificate with openssl's exit status not looked at.
analyzeCertificateNoExitCheck(data, run) ==
    IF ~data.hasCrt
    THEN [expiryDate |-> <<>>, err |-> Errorf("tls.crt not found in secret", "", "")]
    ELSE IF ~certBytes(data).ok
    THEN [expiryDate |-> <<>>, err |-> Errorf("error decoding certificate data", "", "")]
    ELSE [expiryDate |-> TrimSpace(TrimPrefix(run.output)), err |-> NoErr]

\* analyzeCertificate(secret); run is openssl's answer for the decoded bytes.
analyzeCertificate(data, run) ==
    IF ~data.hasCrt
    THEN [expiryDate |-> <<>>, err |-> Errorf("tls.crt not found in secret", "", "")]
    ELSE IF ~certBytes(data).ok
    THEN [expiryDate |-> <<>>, err |-> Errorf("error decoding certificate data", "", "")]
    ELSE IF ~run.ok
    THEN [expiryDate |-> <<>>, err |-> Errorf("openssl error", "", "")]
    ELSE [expiryDate |-> TrimSpace(TrimPrefix(run.output)), err |-> NoErr]

\* -------------------------------------------------------- getGatewaySecrets
\* credentialOf with the PASSTHROUGH test left out.
credentialOfAnyMode(server) ==
    LET tls == NestedMap(server.tls)
        mode == NestedString(tls.val.mode)
        credentialName == NestedString(tls.val.credentialName)
    IN  IF ~tls.found \/ tls.err # NoErr
        THEN [fetch |-> FALSE, name |-> ""]
        ELSE IF ~mode.found \/ mode.err # NoErr
        THEN [fetch |-> FALSE, name |-> ""]
        ELSE IF ~credentialName.found \/ credentialName.err # NoErr
        THEN [fetch |-> FALSE, name |-> ""]
        ELSE [fetch |-> TRUE, name |-> credentialName.val]

\* credentialOf with a missing credentialName not skipped: the empty name is
\* fetched.
credentialOfEmptyName(server) ==
    LET tls == NestedMap(server.tls)
        mode == NestedString(tls.val.mode)
        credentialName == NestedString(tls.val.credentialName)
    IN  IF ~tls.found \/ tls.err # NoErr
        THEN [fetch |-> FALSE, name |-> ""]
        ELSE IF ~mode.found \/ mode.err # NoErr \/ mode.val = "PASSTHROUGH"
        THEN [fetch |-> FALSE, name |-> ""]
        ELSE [fetch |-> TRUE, name |-> credentialName.val]

\* Lines 143-156: the name to fetch for one server (a map), or nothing.
credentialOf(server) ==
    LET tls == NestedMap(server.tls)
        mode == NestedString(tls.val.mode)
        credentialName == NestedString(tls.val.credentialName)
    IN  IF ~tls.found \/ tls.err # NoErr
        THEN [fetch |-> FALSE, name |-> ""]
        ELSE IF ~mode.found \/ mode.err # NoErr \/ mode.val = "PASSTHROUGH"
        THEN [fetch |-> FALSE, name |-> ""]
        ELSE IF ~credentialName.found \/ credentialName.err # NoErr
        THEN [fetch |-> FALSE, name |-> ""]
        ELSE [fetch |-> TRUE, name |-> credentialName.val]

\* One call of kclient.CoreV1().Secrets(namespace).Get(name).
GetSecretCall(namespace, name, ok) ==
    [op |-> "getSecret", namespace |-> namespace, name |-> name, ok |-> ok]

\* serverLoop with a failed get-secret skipped instead of returned.
RECURSIVE serverLoopSkipsFailure(_, _, _, _, _, _)
serverLoopSkipsFailure(gw, servers, store, i, secrets, calls) ==
    IF i > Len(servers)
    THEN [secrets |-> secrets, err |-> NoErr, calls |-> calls]
    ELSE IF ~servers[i].isMap
    THEN [secrets |-> <<>>, err |-> Errorf("invalid server object found", "", ""),
          calls |-> calls]
    ELSE LET c == credentialOf(servers[i])
             got == store[c.name]
             call == GetSecretCall(gw.namespace, c.name, got.ok)
             secret == [name |-> c.name, namespace |-> gw.namespace, data |-> got.data]
         IN  IF ~c.fetch
             THEN serverLoopSkipsFailure(gw, servers, store, i + 1, secrets, calls)
             ELSE IF ~got.ok
             THEN serverLoopSkipsFailure(gw, servers, store, i + 1, secrets,
                                         Append(calls, call))
             ELSE serverLoopSkipsFailure(gw, servers, store, i + 1,
                                         Append(secrets, secret), Append(calls, call))

\* The loop of lines 136-166 from server i on; secrets and calls are what the
\* earlier servers left.
RECURSIVE serverLoop(_, _, _, _, _, _)
serverLoop(gw, servers, store, i, secrets, calls) ==
    IF i > Len(servers)
    THEN [secrets |-> secrets, err |-> NoErr, calls |-> calls]
    ELSE IF ~servers[i].isMap
    THEN [secrets |-> <<>>, err |-> Errorf("invalid server object found", "", ""),
          calls |-> calls]
    ELSE LET c == credentialOf(servers[i])
             got == store[c.name]
             call == GetSecretCall(gw.namespace, c.name, got.ok)
             secret == [name |-> c.name, namespace |-> gw.namespace, data |-> got.data]
         IN  IF ~c.fetch
             THEN serverLoop(gw, servers, store, i + 1, secrets, calls)
             ELSE IF ~got.ok
             THEN [secrets |-> <<>>,
                   err |-> Errorf("error getting secret", c.name, gw.namespace),
                   calls |-> Append(calls, call)]
             ELSE serverLoop(gw, servers, store, i + 1,
                             Append(secrets, secret), Append(calls, call))

\* A list without the later copies of its elements.
RECURSIVE Dedup(_)
Dedup(s) ==
    IF s = <<>> THEN <<>>
    ELSE LET rest == Dedup(SubSeq(s, 1, Len(s) - 1))
         IN  IF \E i \in 1..Len(rest) : rest[i] = s[Len(s)]
             THEN rest
             ELSE Append(rest, s[Len(s)])

\* getGatewaySecrets with a secret named twice returned once.
getGatewaySecretsDedup(gw, sf, store) ==
    LET servers == NestedSlice(sf)
        r == serverLoop(gw, servers.val, store, 1, <<>>, <<>>)
    IN  IF ~servers.found \/ servers.err # NoErr
        THEN [secrets |-> <<>>, err |-> Errorf("error getting gateway servers", "", ""),
              calls |-> <<>>]
        ELSE [secrets |-> Dedup(r.secrets), err |-> r.err, calls |-> r.calls]

\* getGatewaySecrets(kclient, gw): the secrets, the error, and the get-secret
\* calls made on the way.
getGatewaySecrets(gw, sf, store) ==
    LET servers == NestedSlice(sf)
    IN  IF ~servers.found \/ servers.err # NoErr
        THEN [secrets |-> <<>>, err |-> Errorf("error getting gateway servers", "", ""),
              calls |-> <<>>]
        ELSE serverLoop(gw, servers.val, store, 1, <<>>, <<>>)

\* ------------------------------------------------------------------ output
\* One printed line. A field the format string does not print is NotPrinted.
\* at is the position <<namespace index, gateway index>> the line was printed
\* at; it is bookkeeping, not text.
NotPrinted == ""

Line(kind, secret, gateway, namespace, expiry, err, at) ==
    [kind |-> kind, secret |-> secret, gateway |-> gateway, namespace |-> namespace,
     expiry |-> expiry, err |-> err, at |-> at]

\* Line 104
GatewayErrorLine(ns, err, at) ==
    Line("gatewayError", NotPrinted, NotPrinted, ns, <<>>, err, at)

\* Line 113
CertErrorLine(gw, ns, err, at) ==
    Line("certError", NotPrinted, gw.name, ns, <<>>, err, at)

\* Line 117
CertLine(secret, gw, ns, expiryDate, at) ==
    Line("cert", secret.name, gw.name, ns, expiryDate, NoErr, at)

\* walkSecrets with the loop left at the first certificate that fails.
walkSecretsStopsAtFailure(secrets, runs, gw, ns, at) ==
    LET failed == { i \in 1..Len(secrets) :
                        analyzeCertificate(secrets[i].data, runs[i]).err # NoErr }
        n == IF failed = {} THEN Len(secrets)
             ELSE CHOOSE i \in failed : \A j \in failed : i <= j
    IN  [i \in 1..n |->
            LET r == analyzeCertificate(secrets[i].data, runs[i])
            IN  IF r.err # NoErr
                THEN CertErrorLine(gw, ns, r.err, at)
                ELSE CertLine(secrets[i], gw, ns, r.expiryDate, at)]

\* Lines 110-118: the lines printed for the secrets of one gateway; runs[i]
\* is openssl's answer for secret i.
walkSecrets(secrets, runs, gw, ns, at) ==
    [i \in 1..Len(secrets) |->
        LET r == analyzeCertificate(secrets[i].data, runs[i])
        IN  IF r.err # NoErr
            THEN CertErrorLine(gw, ns, r.err, at)
            ELSE CertLine(secrets[i], gw, ns, r.expiryDate, at)]

\* openssl's answers for a list of secrets.
OpensslRuns(secrets) ==
    [i \in 1..Len(secrets) |-> Openssl(certBytes(secrets[i].data).bytes)]

\* Lines 102-119: the lines printed for one gateway, given what
\* getGatewaySecrets returned.
gatewayLines(r, gw, ns, at) ==
    IF r.err # NoErr
    THEN <<GatewayErrorLine(ns, r.err, at)>>
    ELSE walkSecrets(r.secrets, OpensslRuns(r.secrets), gw, ns, at)

\* -------------------------------------------------------------- namespaces
NsNames == {"kube-system", "xcp-multicluster", "shop", "pay"}

GwNames == {"edge", "web"}

\* Names as the API server orders a list: by name.
NameOrder == <<"edge", "kube-system", "pay", "shop", "web", "xcp-multicluster">>

Rank(name) == CHOOSE i \in 1..Len(NameOrder) : NameOrder[i] = name

Sorted(s) == \A i, j \in 1..Len(s) : i < j => Rank(s[i]) < Rank(s[j])

\* The answers of list-namespaces: the names are unique, and in name order.
NsListings == { s \in SeqsUpTo(NsNames, MaxNs) : Sorted(s) }

\* The clusters a specification scans, by the name of its scope.
\*   "walk":    any namespaces, up to MaxGw gateways, the shapes of WalkEntries
\*   "gateway": the namespaces kube-system and shop, at most one gateway in shop,
\*              every shape of server
ScopeListings(sc) == IF sc = "walk" THEN NsListings ELSE {<<"kube-system", "shop">>}

ScopeGateways(sc) == IF sc = "walk" THEN MaxGw ELSE 1

ScopeEntries(sc) == IF sc = "walk" THEN WalkEntries ELSE ServerEntries

\* The answers of list-gateways in a namespace: at most n gateways, in
\* name order, each in that namespace.
GwListings(ns, n) ==
    { [i \in 1..Len(s) |-> [name |-> s[i], namespace |-> ns]] :
        s \in { t \in SeqsUpTo(GwNames, n) : Sorted(t) } }

\* getNamespaces with only kube-system left out.
getNamespacesOneName(items) ==
    SelectSeq(items, LAMBDA name : name # "kube-system")

\* Lines 70-74
getNamespaces(items) ==
    SelectSeq(items, LAMBDA name : name # "kube-system" /\ name # "xcp-multicluster")

ListNamespacesCall(ok) ==
    [op |-> "listNamespaces", namespace |-> "", name |-> "", ok |-> ok]

ListGatewaysCall(ns, ok) ==
    [op |-> "listGateways", namespace |-> ns, name |-> "", ok |-> ok]

\* -------------------------------------------------------------------- state
VARIABLES
    pc,        \* "main", "ns" (line 90), "gw" (line 100), "done"; "cert", "certDone"
    nsItems,   \* what list-namespaces answered
    nsList,    \* main's nsList
    nsIdx,     \* the namespace of the loop of line 90
    gwList,    \* gwList.Items
    gwIdx,     \* the gateway of the loop of line 100
    out,       \* the lines printed by getNsGateways
    calls,     \* the calls made to the cluster, each with the position it was made at
    fatal,     \* the error main printed before returning, or NoErr
    listed,    \* every gateway list-gateways returned, as <<namespace index, gateway>>
    handed,    \* every gateway handed to getGatewaySecrets, likewise
    nServers,  \* server entries read so far
    last,      \* the gateway processed last: its servers field and the answers of
               \* get-secret for the names asked
    certIn,    \* certificate pipeline: the secret's data and openssl's answer
    scope      \* the clusters this specification scans: "walk" or "gateway"

vars == <<pc, nsItems, nsList, nsIdx, gwList, gwIdx, out, calls, fatal, listed,
          handed, nServers, last, certIn, scope>>

NoGateway == [name |-> "", namespace |-> ""]

NoLast == [at |-> <<0, 0>>, gw |-> NoGateway, sf |-> ServersAbsent,
           store |-> [n \in CredNames \cup {""} |-> NotFound]]

NoCertIn == [data |-> NoCrt, run |-> RunFailed(<<>>)]

At(call, at) ==
    [op |-> call.op, namespace |-> call.namespace, name |-> call.name,
     ok |-> call.ok, at |-> at]

Init ==
    /\ pc = "main"
    /\ nsItems = <<>>
    /\ nsList = <<>>
    /\ nsIdx = 1
    /\ gwList = <<>>
    /\ gwIdx = 1
    /\ out = <<>>
    /\ calls = <<>>
    /\ fatal = NoErr
    /\ listed = <<>>
    /\ handed = <<>>
    /\ nServers = 0
    /\ last = NoLast
    /\ certIn = NoCertIn
    /\ scope = "walk"

\* main, lines 28-33, when list-namespaces fails.
GetNamespacesFails ==
    /\ pc = "main"
    /\ calls' = Append(calls, At(ListNamespacesCall(FALSE), <<0, 0>>))
    /\ fatal' = Errorf("error getting the list of namespaces", "", "")
    /\ pc' = "done"
    /\ UNCHANGED <<nsItems, nsList, nsIdx, gwList, gwIdx, out, listed, handed,
                   nServers, last, certIn, scope>>

\* main, lines 28-36, with getNamespaces: the filtered names go to getNsGateways.
GetNamespaces ==
    /\ pc = "main"
    /\ \E items \in ScopeListings(scope) :
        /\ nsItems' = items
        /\ nsList' = getNamespaces(items)
    /\ calls' = Append(calls, At(ListNamespacesCall(TRUE), <<0, 0>>))
    /\ nsIdx' = 1
    /\ pc' = "ns"
    /\ UNCHANGED <<gwList, gwIdx, out, fatal, listed, handed, nServers, last, certIn, scope>>

\* ListGatewaysFails with the failure printed and the walk carried on.
ListGatewaysFailsContinues ==
    /\ pc = "ns"
    /\ nsIdx <= Len(nsList)
    /\ calls' = Append(calls, At(ListGatewaysCall(nsList[nsIdx], FALSE), <<nsIdx, 0>>))
    /\ fatal' = Errorf("error getting resources per namespace", "", nsList[nsIdx])
    /\ pc' = "ns"
    /\ nsIdx' = nsIdx + 1
    /\ UNCHANGED <<nsItems, nsList, gwList, gwIdx, out, listed, handed,
                   nServers, last, certIn, scope>>

\* Lines 92-95 and main's lines 37-40: list-gateways fails, the scan returns.
ListGatewaysFails ==
    /\ pc = "ns"
    /\ nsIdx <= Len(nsList)
    /\ calls' = Append(calls, At(ListGatewaysCall(nsList[nsIdx], FALSE), <<nsIdx, 0>>))
    /\ fatal' = Errorf("error getting resources per namespace", "", nsList[nsIdx])
    /\ pc' = "done"
    /\ UNCHANGED <<nsItems, nsList, nsIdx, gwList, gwIdx, out, listed, handed,
                   nServers, last, certIn, scope>>

\* Lines 90-98: the gateways of the next namespace.
ListGateways ==
    /\ pc = "ns"
    /\ nsIdx <= Len(nsList)
    /\ \E items \in GwListings(nsList[nsIdx], ScopeGateways(scope) - Len(listed)) :
        /\ gwList' = items
        /\ listed' = listed \o [i \in 1..Len(items) |-> <<nsIdx, items[i]>>]
        /\ IF Len(items) > 0
           THEN pc' = "gw" /\ nsIdx' = nsIdx
           ELSE pc' = "ns" /\ nsIdx' = nsIdx + 1
    /\ calls' = Append(calls, At(ListGatewaysCall(nsList[nsIdx], TRUE), <<nsIdx, 0>>))
    /\ gwIdx' = 1
    /\ UNCHANGED <<nsItems, nsList, out, fatal, handed, nServers, last, certIn, scope>>

\* The answers of the store for the names the calls asked for; NotFound for
\* a name nobody asked for.
Asked(store, made) ==
    [n \in DOMAIN store |->
        IF \E i \in 1..Len(made) : made[i].name = n THEN store[n] ELSE NotFound]

\* ProcessGateway with the extraction error returned instead of printed and
\* skipped.
ProcessGatewayReturnsError ==
    /\ pc = "gw"
    /\ gwIdx <= Len(gwList)
    /\ \E sf \in ServersFields(ScopeEntries(scope), MaxServers - nServers) :
       \E store \in Stores(sf) :
        LET gw == gwList[gwIdx]
            ns == nsList[nsIdx]
            at == <<nsIdx, gwIdx>>
            r == getGatewaySecrets(gw, sf, store)
        IN  /\ out' = out \o gatewayLines(r, gw, ns, at)
            /\ calls' = calls \o [i \in 1..Len(r.calls) |-> At(r.calls[i], at)]
            /\ handed' = Append(handed, <<nsIdx, gw>>)
            /\ nServers' = nServers + Len(sf.items)
            /\ last' = [at |-> at, gw |-> gw, sf |-> sf, store |-> Asked(store, r.calls)]
            /\ IF r.err # NoErr
               THEN gwIdx' = gwIdx /\ pc' = "done" /\ nsIdx' = nsIdx
               ELSE IF gwIdx < Len(gwList)
               THEN gwIdx' = gwIdx + 1 /\ pc' = "gw" /\ nsIdx' = nsIdx
               ELSE gwIdx' = gwIdx + 1 /\ pc' = "ns" /\ nsIdx' = nsIdx + 1
    /\ UNCHANGED <<nsItems, nsList, gwList, fatal, listed, certIn, scope>>

\* Lines 100-119: one gateway, its secrets and their certificates.
ProcessGateway ==
    /\ pc = "gw"
    /\ gwIdx <= Len(gwList)
    /\ \E sf \in ServersFields(ScopeEntries(scope), MaxServers - nServers) :
       \E store \in Stores(sf) :
        LET gw == gwList[gwIdx]
            ns == nsList[nsIdx]
            at == <<nsIdx, gwIdx>>
            r == getGatewaySecrets(gw, sf, store)
        IN  /\ out' = out \o gatewayLines(r, gw, ns, at)
            /\ calls' = calls \o [i \in 1..Len(r.calls) |-> At(r.calls[i], at)]
            /\ handed' = Append(handed, <<nsIdx, gw>>)
            /\ nServers' = nServers + Len(sf.items)
            /\ last' = [at |-> at, gw |-> gw, sf |-> sf, store |-> Asked(store, r.calls)]
    /\ IF gwIdx < Len(gwList)
       THEN gwIdx' = gwIdx + 1 /\ pc' = "gw" /\ nsIdx' = nsIdx
       ELSE gwIdx' = gwIdx + 1 /\ pc' = "ns" /\ nsIdx' = nsIdx + 1
    /\ UNCHANGED <<nsItems, nsList, gwList, fatal, listed, certIn, scope>>

\* Line 124 and main's return: every namespace was walked.
ScanDone ==
    /\ pc = "ns"
    /\ nsIdx > Len(nsList)
    /\ pc' = "done"
    /\ UNCHANGED <<nsItems, nsList, nsIdx, gwList, gwIdx, out, calls, fatal, listed,
                   handed, nServers, last, certIn, scope>>

Next ==
    \/ GetNamespacesFails
    \/ GetNamespaces
    \/ ListGatewaysFails
    \/ ListGateways
    \/ ProcessGateway
    \/ ScanDone

Spec == Init /\ [][Next]_vars

\* The same scan, of the clusters of the scope "gateway".
InitGateway ==
    /\ pc = "main"
    /\ nsItems = <<>>
    /\ nsList = <<>>
    /\ nsIdx = 1
    /\ gwList = <<>>
    /\ gwIdx = 1
    /\ out = <<>>
    /\ calls = <<>>
    /\ fatal = NoErr
    /\ listed = <<>>
    /\ handed = <<>>
    /\ nServers = 0
    /\ last = NoLast
    /\ certIn = NoCertIn
    /\ scope = "gateway"

SpecGateway == InitGateway /\ [][Next]_vars

\* ------------------------------------------------- the certificate pipeline
\* A second specification: one secret, with any tls.crt blob of at most
\* MaxCrtLen tokens and any answer of openssl, goes through lines 110-118.
CrtTokens == {"H", "F", "q", "g", "\n", "!"}

CrtBlobs == {NoCrt} \cup { Crt(t) : t \in SeqsUpTo(CrtTokens, MaxCrtLen) }

\* What openssl prints when it succeeds: one line notAfter=<date text>,
\* possibly after a warning line it wrote to stderr.
OkOutputs ==
    { pre \o <<OpensslPrefix>> \o date \o post :
        pre \in {<<>>, <<"w", "\n">>},
        date \in {<<"d">>, <<"d", " ", "d">>},
        post \in {<<>>, <<"\n">>} }

OpensslAnswers ==
    {RunFailed(<<>>), RunFailed(<<"w", "\n">>)} \cup { RunOk(o) : o \in OkOutputs }

CertGateway == [name |-> "edge", namespace |-> "shop"]

CertSecret(data) == [name |-> "shop-cert", namespace |-> "shop", data |-> data]

InitCert ==
    /\ pc = "cert"
    /\ certIn \in [data : CrtBlobs, run : OpensslAnswers]
    /\ nsItems = <<>>
    /\ nsList = <<>>
    /\ nsIdx = 1
    /\ gwList = <<>>
    /\ gwIdx = 1
    /\ out = <<>>
    /\ calls = <<>>
    /\ fatal = NoErr
    /\ listed = <<>>
    /\ handed = <<>>
    /\ nServers = 0
    /\ last = NoLast
    /\ scope = "walk"

\* Lines 110-118 for the one secret.
CertPipeline ==
    /\ pc = "cert"
    /\ out' = walkSecrets(<<CertSecret(certIn.data)>>, <<certIn.run>>,
                          CertGateway, "shop", <<1, 1>>)
    /\ pc' = "certDone"
    /\ UNCHANGED <<nsItems, nsList, nsIdx, gwList, gwIdx, calls, fatal, listed,
                   handed, nServers, last, certIn, scope>>

NextCert == CertPipeline

SpecCert == InitCert /\ [][NextCert]_vars

\* ================================================================== claims
\* What the claims speak of, stated without the extractor's code.

Reserved == {"kube-system", "xcp-multicluster"}

\* A server that needs TLS termination with a named credential.
Terminated(server) ==
    /\ server.isMap
    /\ server.tls.k = "map"
    /\ server.tls.mode.k = "string"
    /\ server.tls.mode.s # "PASSTHROUGH"
    /\ server.tls.credentialName.k = "string"

\* A well-formed server with no tls block, no mode, pass-through mode or no
\* credentialName.
SoftSkipped(server) ==
    /\ server.isMap
    /\ \/ server.tls.k = "absent"
       \/ server.tls.k = "map" /\ server.tls.mode.k = "absent"
       \/ server.tls.k = "map" /\ server.tls.mode = FStr("PASSTHROUGH")
       \/ server.tls.k = "map" /\ server.tls.credentialName.k = "absent"

CredOf(server) == server.tls.credentialName.s

\* The servers at which an extraction fails: not a map, or terminated with a
\* secret that cannot be fetched.
Failing(server, store) ==
    \/ ~server.isMap
    \/ Terminated(server) /\ ~store[CredOf(server)].ok

\* The index of the first failing server, 0 when there is none.
FirstFailing(sf, store) ==
    LET bad == { i \in 1..Len(sf.items) : Failing(sf.items[i], store) }
    IN  IF bad = {} THEN 0 ELSE CHOOSE i \in bad : \A j \in bad : i <= j

\* The terminated servers among the first n, in list order.
RECURSIVE TerminatedUpTo(_, _)
TerminatedUpTo(sf, n) ==
    IF n = 0 THEN <<>>
    ELSE IF Terminated(sf.items[n])
         THEN Append(TerminatedUpTo(sf, n - 1), sf.items[n])
         ELSE TerminatedUpTo(sf, n - 1)

\* The lines and the calls of one position of the walk.
LinesAt(at) == SelectSeq(out, LAMBDA l : l.at = at)

CallsAt(at) == SelectSeq(calls, LAMBDA c : c.at = at)

Records(lines) == SelectSeq(lines, LAMBDA l : l.kind = "cert")

\* Whether a secret's certificate can be analysed: the key is there, the
\* blob decodes, openssl accepts the bytes.
Analysable(data) ==
    /\ data.hasCrt
    /\ certBytes(data).ok
    /\ Openssl(certBytes(data).bytes).ok

Processed == last.at # <<0, 0>>

\* The last gateway's servers field is a list and no server of it fails.
LastExtracted == Processed /\ last.sf.k = "list" /\ FirstFailing(last.sf, last.store) = 0

\* The last gateway's servers field is a list and a server of it fails.
LastFailedAtServer == Processed /\ last.sf.k = "list" /\ FirstFailing(last.sf, last.store) # 0

FailedListCalls == { i \in 1..Len(calls) : calls[i].op = "listGateways" /\ ~calls[i].ok }

NamespacesListed == Len(calls) > 0 /\ calls[1].op = "listNamespaces" /\ calls[1].ok

\* The secrets an extraction without failure returns: one per terminated
\* server, in list order.
ExpectedSecrets(gw, sf, store) ==
    LET t == TerminatedUpTo(sf, Len(sf.items))
    IN  [i \in 1..Len(t) |->
            [name |-> CredOf(t[i]), namespace |-> gw.namespace,
             data |-> store[CredOf(t[i])].data]]

\* The records a gateway is due: none when its extraction fails, else one per
\* analysable secret, in list order.
ExpectedRecords(at, gw, ns, sf, store) ==
    IF sf.k # "list" \/ FirstFailing(sf, store) # 0
    THEN <<>>
    ELSE LET secrets == SelectSeq(ExpectedSecrets(gw, sf, store),
                                  LAMBDA x : Analysable(x.data))
         IN  [i \in 1..Len(secrets) |->
                CertLine(secrets[i], gw, ns,
                         analyzeCertificate(secrets[i].data,
                             Openssl(certBytes(secrets[i].data).bytes)).expiryDate,
                         at)]

\* The gateways listed so far that the walk has reached.
Reached ==
    IF pc = "gw"
    THEN SubSeq(listed, 1, Len(listed) - (Len(gwList) - gwIdx + 1))
    ELSE listed

\* C1: as long as no list-gateways call fails, a gateway whose extraction
\* fails never aborts the scan: every gateway listed is handed to the
\* extractor, in order (all of them once the scan is done, with one
\* list-gateways call per namespace), and the gateway processed last emitted
\* exactly the records it is due, whatever failed before it.
C1_ExtractionFailureNeverAborts ==
    (NamespacesListed /\ FailedListCalls = {}) =>
        /\ handed = Reached
        /\ pc = "done" =>
            /\ handed = listed
            /\ Len(SelectSeq(calls, LAMBDA c : c.op = "listGateways")) = Len(nsList)
        /\ Processed =>
            Records(LinesAt(last.at)) =
                ExpectedRecords(last.at, last.gw, nsList[last.at[1]], last.sf, last.store)

\* A failed extraction, then a record of a later gateway of the same
\* namespace, then a record of a gateway of a later namespace.
C1_Witness ==
    /\ pc = "done"
    /\ \E i, j, k \in 1..Len(out) :
        /\ i < j /\ j < k
        /\ out[i].kind = "gatewayError"
        /\ out[j].kind = "cert" /\ out[j].at[1] = out[i].at[1] /\ out[j].at[2] > out[i].at[2]
        /\ out[k].kind = "cert" /\ out[k].at[1] > out[i].at[1]

\* C2, in one state: once a list-gateways call has failed, it is the last
\* call made, the scan is over with that error, and every line printed and
\* every other call belongs to a namespace before the failing one.
AbortedAtFailure ==
    \A i \in FailedListCalls :
        /\ i = Len(calls)
        /\ pc = "done"
        /\ fatal = Errorf("error getting resources per namespace", "", calls[i].namespace)
        /\ \A l \in 1..Len(out) : out[l].at[1] < calls[i].at[1]
        /\ \A c \in 1..(i - 1) : calls[c].at[1] < calls[i].at[1]

\* C2, in one step: the step of the failing call leaves the lines printed so
\* far as they are, and no step after it prints a line or makes a call.
NothingAfterFailure ==
    /\ (FailedListCalls' # {} /\ FailedListCalls = {}) => out' = out
    /\ FailedListCalls # {} => (out' = out /\ calls' = calls)

\* C2: when listing the gateways of namespace N fails the scan aborts with
\* that error: nothing is printed and no call is made for N or a later
\* namespace, and what was printed for the namespaces before N stays as it
\* was printed.
C2_ListFailureAborts == []AbortedAtFailure /\ [][NothingAfterFailure]_vars

\* A list-gateways failure in the second namespace, after a record of the first.
C2_Witness ==
    /\ \E i \in FailedListCalls : calls[i].at[1] = 2
    /\ \E l \in 1..Len(out) : out[l].kind = "cert" /\ out[l].at[1] = 1

\* C6: the two reserved names never reach the walk: nsList is the listing
\* without them, in the listing's order; no call is made and no line is
\* printed for either; and once the scan is done without a list-gateways
\* failure, the gateways of every other listed namespace were listed.
C6_ReservedNamespacesExcluded ==
    /\ NamespacesListed =>
        nsList = SelectSeq(nsItems, LAMBDA name : name \notin Reserved)
    /\ \A i \in 1..Len(calls) : calls[i].namespace \notin Reserved
    /\ \A i \in 1..Len(out) : out[i].namespace \notin Reserved
    /\ \A i \in 1..Len(nsList) : nsList[i] \notin Reserved
    /\ (pc = "done" /\ NamespacesListed /\ FailedListCalls = {}) =>
        \A n \in 1..Len(nsItems) :
            nsItems[n] \notin Reserved =>
                \E i \in 1..Len(calls) :
                    calls[i].op = "listGateways" /\ calls[i].namespace = nsItems[n]

\* Both reserved names were listed with a third namespace, which was scanned
\* and has a record.
C6_Witness ==
    /\ pc = "done"
    /\ nsItems = <<"kube-system", "shop", "xcp-multicluster">>
    /\ nsList = <<"shop">>
    /\ \E i \in 1..Len(out) : out[i].kind = "cert" /\ out[i].namespace = "shop"

LastNs == nsList[last.at[1]]

LastTerminated == TerminatedUpTo(last.sf, Len(last.sf.items))

\* C3: every record names a gateway that list-gateways returned for the
\* record's namespace and a secret that was fetched from that namespace at
\* that gateway; the records and the get-secret calls of the gateway
\* processed last are no more than its terminated servers, and each record
\* names the credential of one of them.
C3_RecordsOnlyForTerminatedServers ==
    /\ \A l \in 1..Len(out) :
        out[l].kind = "cert" =>
            /\ out[l].namespace = nsList[out[l].at[1]]
            /\ \E i \in 1..Len(listed) :
                listed[i] = <<out[l].at[1],
                              [name |-> out[l].gateway, namespace |-> out[l].namespace]>>
            /\ \E c \in 1..Len(calls) :
                calls[c] = At(GetSecretCall(out[l].namespace, out[l].secret, TRUE),
                              out[l].at)
            /\ out[l].at = last.at =>
                \E j \in 1..Len(LastTerminated) : CredOf(LastTerminated[j]) = out[l].secret
    /\ Processed =>
        /\ Len(Records(LinesAt(last.at))) <= Len(LastTerminated)
        /\ Len(CallsAt(last.at)) <= Len(LastTerminated)

\* A gateway with a pass-through server and a terminated server, both naming
\* a credential, printed one record.
C3_Witness ==
    /\ Processed
    /\ Len(last.sf.items) = 2
    /\ last.sf.items[1].tls.mode = FStr("PASSTHROUGH")
    /\ Terminated(last.sf.items[2])
    /\ Len(Records(LinesAt(last.at))) = 1

LastOnlySoftSkipped ==
    /\ Processed
    /\ last.sf.k = "list"
    /\ \A i \in 1..Len(last.sf.items) : SoftSkipped(last.sf.items[i])

\* C4: a gateway whose servers list holds only servers with no tls block, no
\* mode, pass-through mode or no credentialName (or holds nothing) is
\* extracted without error and without a secret, no get-secret call is made
\* for it and nothing is printed for it; and in any list such a server is
\* never the one at which the extraction fails.
C4_SoftSkipsFetchNothing ==
    /\ LastOnlySoftSkipped =>
        /\ getGatewaySecrets(last.gw, last.sf, last.store)
             = [secrets |-> <<>>, err |-> NoErr, calls |-> <<>>]
        /\ LinesAt(last.at) = <<>>
        /\ CallsAt(last.at) = <<>>
    /\ LastExtracted =>
        /\ getGatewaySecrets(last.gw, last.sf, last.store).err = NoErr
        /\ Len(CallsAt(last.at)) = Len(LastTerminated)

\* A gateway with two different soft-skipped servers, the second one naming a
\* credential.
C4_Witness ==
    /\ LastOnlySoftSkipped
    /\ Len(last.sf.items) = 2
    /\ last.sf.items[1] # last.sf.items[2]
    /\ last.sf.items[2].tls.credentialName.k = "string"

\* C5: when the extraction of a gateway returns secrets s1..sk, exactly k
\* lines are printed for it, the i-th about si: its record when si can be
\* analysed, else one diagnostic (naming tls.crt when that key is missing);
\* a failure of si takes nothing from the secrets after it.
C5_SecretFailureIsLocal ==
    LastExtracted =>
        LET secrets == ExpectedSecrets(last.gw, last.sf, last.store)
            lines == LinesAt(last.at)
        IN  /\ Len(lines) = Len(secrets)
            /\ \A i \in 1..Len(secrets) :
                IF Analysable(secrets[i].data)
                THEN lines[i].kind = "cert" /\ lines[i].secret = secrets[i].name
                ELSE /\ lines[i].kind = "certError"
                     /\ ~secrets[i].data.hasCrt =>
                            lines[i].err.msg = "tls.crt not found in secret"

\* A secret without tls.crt, then a secret with a certificate: a diagnostic,
\* then a record.
C5_Witness ==
    /\ LastExtracted
    /\ LET secrets == ExpectedSecrets(last.gw, last.sf, last.store)
           lines == LinesAt(last.at)
       IN  /\ Len(secrets) = 2
           /\ ~secrets[1].data.hasCrt
           /\ Analysable(secrets[2].data)
           /\ Len(lines) = 2
           /\ lines[1].kind = "certError"
           /\ lines[2].kind = "cert"

\* C9: when a server of the gateway is no map or its secret cannot be
\* fetched, the extraction returns an error and no secret, the get-secret
\* calls made are those of the terminated servers up to the failing one and
\* no other, and the walker prints one diagnostic and no record for the
\* gateway.
C9_NoPartialExtraction ==
    LastFailedAtServer =>
        LET f == FirstFailing(last.sf, last.store)
            fetched == TerminatedUpTo(last.sf, f)
            r == getGatewaySecrets(last.gw, last.sf, last.store)
        IN  /\ r.err # NoErr
            /\ r.secrets = <<>>
            /\ CallsAt(last.at) =
                [i \in 1..Len(fetched) |->
                    At(GetSecretCall(last.gw.namespace, CredOf(fetched[i]), i < Len(fetched)
                                        \/ ~last.sf.items[f].isMap),
                       last.at)]
            /\ Len(LinesAt(last.at)) = 1
            /\ LinesAt(last.at)[1].kind = "gatewayError"

\* The first server's secret was fetched and holds a certificate, the second
\* server's secret cannot be fetched.
C9_Witness ==
    /\ LastFailedAtServer
    /\ FirstFailing(last.sf, last.store) = 2
    /\ Terminated(last.sf.items[1])
    /\ Terminated(last.sf.items[2])
    /\ Analysable(last.store[CredOf(last.sf.items[1])].data)
    /\ Len(CallsAt(last.at)) = 2

\* C10: when the extraction of a gateway succeeds it returns one secret per
\* terminated server, in list order and with repetitions, it made exactly
\* those get-secret calls in that order, and the records printed are those
\* of the analysable secrets among them, in that order.
C10_OrderAndDuplicatesKept ==
    LastExtracted =>
        LET secrets == ExpectedSecrets(last.gw, last.sf, last.store)
        IN  /\ getGatewaySecrets(last.gw, last.sf, last.store).secrets = secrets
            /\ CallsAt(last.at) =
                [i \in 1..Len(secrets) |->
                    At(GetSecretCall(last.gw.namespace, secrets[i].name, TRUE), last.at)]
            /\ Records(LinesAt(last.at)) =
                ExpectedRecords(last.at, last.gw, LastNs, last.sf, last.store)

\* Two terminated servers naming the same credential: two calls, two records.
C10_Witness ==
    /\ LastExtracted
    /\ Len(last.sf.items) = 2
    /\ Terminated(last.sf.items[1])
    /\ last.sf.items[2] = last.sf.items[1]
    /\ Len(CallsAt(last.at)) = 2
    /\ Len(Records(LinesAt(last.at))) = 2

\* C7 (certificate pipeline): whatever openssl prints when it succeeds, the
\* expiration of a record is not empty.
C7_ExpirationNotEmpty ==
    \A l \in 1..Len(out) : out[l].kind = "cert" => out[l].expiry # <<>>

\* A record printed from an answer that ends with a line break.
C7_Witness ==
    /\ pc = "certDone"
    /\ certIn.run.ok
    /\ certIn.run.output[Len(certIn.run.output)] = "\n"
    /\ Len(out) = 1
    /\ out[1].kind = "cert"
    /\ out[1].expiry = <<"d", " ", "d">>

\* What a line lets its reader identify: a field it prints, or a name its
\* error carries.
IdentifiesNamespace(line) == line.namespace # NotPrinted \/ line.err.namespace # ""

IdentifiesGateway(line) == line.gateway # NotPrinted

IdentifiesSecret(line) == line.secret # NotPrinted \/ line.err.name # ""

\* C8: every diagnostic of a failed extraction identifies the namespace and
\* the gateway, and every diagnostic of a failed certificate identifies the
\* namespace, the gateway and the secret.
C8_DiagnosticsIdentifyContext ==
    \A l \in 1..Len(out) :
        /\ out[l].kind = "gatewayError" =>
            IdentifiesNamespace(out[l]) /\ IdentifiesGateway(out[l])
        /\ out[l].kind = "certError" =>
            IdentifiesNamespace(out[l]) /\ IdentifiesGateway(out[l])
            /\ IdentifiesSecret(out[l])

\* Both kinds of diagnostic were printed in one scan.
C8_Witness ==
    /\ \E l \in 1..Len(out) : out[l].kind = "gatewayError" /\ out[l].gateway = NotPrinted
    /\ \E l \in 1..Len(out) : out[l].kind = "certError" /\ out[l].secret = NotPrinted

====
